---------------------------- MODULE Spec2Model ----------------------------
(***************************************************************************)
(* A model of src/other/partition/hoare_block_butterfly.rs: partition,     *)
(* block_partition, the two offset scanners, the cyclic permutation macro  *)
(* and the two small-range strategies.                                     *)
(*                                                                         *)
(* The slice v is the sequence arr of element identities 1..len; an index  *)
(* of the code (0-based) is an index of the model, arr[i + 1] is v[i].     *)
(* Pointers into v and into the stack buffers are indices.  Every call of  *)
(* is_less is one step, and at every such step the predicate may panic.    *)
(*                                                                         *)
(* The three compile-time parameters of the code are instantiated at small *)
(* values that keep the relations the code relies on and the ones its      *)
(* values have: MAX_SMALL_PARTITION_LEN >= 2 * BLOCK (asserted at line     *)
(* 495) and in fact > 2 * BLOCK (256 > 64), BLOCK a multiple of SUB_BLOCK, *)
(* SUB_BLOCK even, and every index below MAX_SMALL_PARTITION_LEN fits u8.  *)
(***************************************************************************)
EXTENDS Integers, Sequences, FiniteSets, TLC

\* const MAX_SMALL_PARTITION_LEN: usize = 256 in the source.
MAX_SMALL_PARTITION_LEN == 9

\* const BLOCK_PARTITION_BLOCK_SIZE: usize = 32 in the source.
BLOCK_PARTITION_BLOCK_SIZE == 4

\* const SUB_BLOCK: usize = 8 in the source (fill_offset_block_up / _down).
SUB_BLOCK == 2

\* const BLOCK: usize = BLOCK_PARTITION_BLOCK_SIZE inside block_partition.
BLOCK == BLOCK_PARTITION_BLOCK_SIZE

\* The largest u8: the index buffers of the code hold u8 entries.
U8_MAX == 255

\* usize::MAX, at the integer width of the model checker.
USIZE_MAX == 2147483647

\* The longest slice handed to partition.
MaxLen == 12

\* The longest slice handed to a small-range strategy directly.
MaxDirectLen == MAX_SMALL_PARTITION_LEN + 1

\* The content of a MaybeUninit buffer entry that was never written.
UNINIT == 0 - 1

\* The state of a temporary that holds no element.
NoElem == 0

VARIABLES
    tclass,      \* the element type's class, fixed at compile time
    entry,       \* the function the caller invoked
    consistent,  \* TRUE: is_less answers by the set less; FALSE: arbitrarily
    less,        \* the elements e with is_less(e, pivot), when consistent
    arr,         \* the slice v
    pc,          \* the position of the program
    l_ptr, r_ptr,                \* block_partition: the two window cursors
    l_off, l_start, l_end,       \* l_offset_storate, _start_ptr, _end_ptr
    r_off, r_start, r_end,       \* r_offset_storate, _start_ptr, _end_ptr
    fj, up_ptr, down_ptr,        \* the scanner in progress
    swap_count,
    ci, left_ptr, right_ptr, tmp, \* the cyclic permutation in progress
    cyc_v,       \* v as it was when the cyclic permutation was invoked
    lefts, rights, \* the positions $next_left and $next_right gave, in order,
                 \* recorded until one of them is given a second time
    aliased,     \* a position was given that had been given before
    cyc_moves,   \* single-element reads and copies of this invocation
    s_base, s_len,               \* the slice handed to small_partition
    entry_v,     \* v as it was when it was handed to small_partition
    scratch, lt_count, ge_out, si, \* small_partition_int_opt
    ge_idx, lt_idx, lt_idx_ptr, ge_count, \* small_partition_move_opt
    ret,         \* the value small_partition returned
    result,      \* the value the entry function returned
    calls,       \* is_less invocations so far (one that panics included)
    moves,       \* single-element reads and copies so far
    iters,       \* iterations of the block loop entered so far
    small_calls  \* invocations of small_partition so far

blockVars == <<l_ptr, r_ptr, l_off, l_start, l_end, r_off, r_start, r_end>>
scanVars  == <<fj, up_ptr, down_ptr>>
cycVars   == <<ci, left_ptr, right_ptr, tmp, cyc_v, lefts, rights, aliased,
              cyc_moves>>
intVars   == <<scratch, lt_count, ge_out>>
moveVars  == <<ge_idx, lt_idx, lt_idx_ptr, ge_count>>
inputVars == <<tclass, entry, consistent, less>>

vars == <<tclass, entry, consistent, less, arr, pc, l_ptr, r_ptr, l_off,
          l_start, l_end, r_off, r_start, r_end, fj, up_ptr, down_ptr,
          swap_count, ci, left_ptr, right_ptr, tmp, cyc_v, lefts, rights,
          aliased, cyc_moves, s_base, s_len, entry_v, scratch,
          lt_count, ge_out, si, ge_idx, lt_idx, lt_idx_ptr, ge_count, ret,
          result, calls, moves, iters, small_calls>>

-----------------------------------------------------------------------------
(* Helpers *)

U8 == 0 .. U8_MAX

\* `x as u8`
AsU8(x) == x % (U8_MAX + 1)

\* usize::wrapping_add(1)
WrappingAdd1(x) == IF x = USIZE_MAX THEN 0 ELSE x + 1

Min(a, b) == IF a <= b THEN a ELSE b

\* `b as usize`
BoolToInt(b) == IF b THEN 1 ELSE 0

\* v[i], i 0-based
At(a, i) == a[i + 1]

\* v[i] = e
Put(a, i, e) == [a EXCEPT ![i + 1] = e]

\* The slice 1, 2, ..., n: every element is its own identity.
Identity(n) == [i \in 1 .. n |-> i]

\* The type classes the Partition impls tell apart: Freeze + Copy of at most
\* one usize ("word": double store), Freeze + Copy of at most two usize
\* ("pair": conditional store), any other type ("general": minimal move).
TClasses == {"word", "pair", "general"}

\* The answers is_less(e, pivot) can give.
Answers(e) == IF consistent THEN {e \in less} ELSE BOOLEAN

Range(a) == {a[p] : p \in 1 .. Len(a)}

UninitBuffer(n) == [k \in 0 .. n - 1 |-> UNINIT]

\* A read of a buffer entry: an entry never written reads as any u8.
ReadU8(buf, k) == IF buf[k] = UNINIT THEN U8 ELSE {buf[k]}

-----------------------------------------------------------------------------
(* The initial states: the caller's arguments and the build's type class. *)

InitLocals ==
    /\ pc = "start"
    /\ l_ptr = 0 /\ r_ptr = 0
    /\ l_off = UninitBuffer(BLOCK) /\ l_start = 0 /\ l_end = 0
    /\ r_off = UninitBuffer(BLOCK) /\ r_start = 0 /\ r_end = 0
    /\ fj = 0 /\ up_ptr = 0 /\ down_ptr = 0
    /\ swap_count = 0
    /\ ci = 0 /\ left_ptr = 0 /\ right_ptr = 0 /\ tmp = NoElem
    /\ cyc_v = <<>> /\ lefts = <<>> /\ rights = <<>> /\ aliased = FALSE
    /\ cyc_moves = 0
    /\ s_base = 0 /\ s_len = 0
    /\ entry_v = <<>>
    /\ scratch = UninitBuffer(MAX_SMALL_PARTITION_LEN)
    /\ lt_count = 0 /\ ge_out = 0 /\ si = 0
    /\ ge_idx = UninitBuffer(MAX_SMALL_PARTITION_LEN)
    /\ lt_idx = UninitBuffer(MAX_SMALL_PARTITION_LEN)
    /\ lt_idx_ptr = 0 /\ ge_count = 0
    /\ ret = 0 /\ result = 0
    /\ calls = 0 /\ moves = 0 /\ iters = 0 /\ small_calls = 0

InitArgs(total) ==
    /\ tclass \in TClasses
    /\ consistent = total
    /\ \/ /\ entry = "partition"
          /\ \E n \in 0 .. MaxLen :
                /\ arr = Identity(n)
                /\ less \in IF total THEN SUBSET (1 .. n) ELSE {{}}
       \/ /\ entry = "small_partition"
          /\ \E n \in MAX_SMALL_PARTITION_LEN .. MaxDirectLen :
                /\ arr = Identity(n)
                /\ less \in IF total THEN {{}, 1 .. n} ELSE {{}}

Init == InitArgs(TRUE) /\ InitLocals

InitAny == InitArgs(FALSE) /\ InitLocals

-----------------------------------------------------------------------------
(* partition and block_partition *)

\* A bug: the test written with <=, so a slice of exactly
\* MAX_SMALL_PARTITION_LEN elements skips the block loop.
BelowThreshold_Inclusive(len) == len <= MAX_SMALL_PARTITION_LEN

\* A bug: the test written against the space two windows need.
BelowThreshold_TwoBlocks(len) == len < 2 * BLOCK

\* block_partition: if len < MAX_SMALL_PARTITION_LEN { return v; }
BelowThreshold(len) == len < MAX_SMALL_PARTITION_LEN

\* partition calls block_partition, which hands the slice back at once when
\* it is shorter than MAX_SMALL_PARTITION_LEN and sets up its cursors if not.
CallPartition ==
    /\ pc = "start"
    /\ entry = "partition"
    /\ IF BelowThreshold(Len(arr))
       THEN /\ s_base' = 0
            /\ s_len' = Len(arr)
            /\ entry_v' = arr
            /\ pc' = "small_entry"
            /\ UNCHANGED blockVars
       ELSE /\ l_ptr' = 0
            /\ r_ptr' = Len(arr) - BLOCK
            /\ l_start' = 0 /\ l_end' = 0
            /\ r_start' = 0 /\ r_end' = 0
            /\ pc' = "blk_loop"
            /\ UNCHANGED <<l_off, r_off, s_base, s_len, entry_v>>
    /\ UNCHANGED <<inputVars, arr, scanVars, swap_count, cycVars, intVars,
                   si, moveVars, ret, result, calls, moves, iters,
                   small_calls>>

\* The caller hands the whole slice to Partition::small_partition itself.
CallSmallPartition ==
    /\ pc = "start"
    /\ entry = "small_partition"
    /\ s_base' = 0
    /\ s_len' = Len(arr)
    /\ entry_v' = arr
    /\ pc' = "small_entry"
    /\ UNCHANGED <<inputVars, arr, blockVars, scanVars, swap_count, cycVars,
                   intVars, si, moveVars, ret, result, calls, moves, iters,
                   small_calls>>

\* A bug: the loop goes on while the cursors have not crossed, although the
\* two windows overlap.
BlockLoopCond_Overlap == l_ptr <= r_ptr

\* while l_ptr.add(BLOCK) <= r_ptr
BlockLoopCond == l_ptr + BLOCK <= r_ptr

\* The loop test; on exit the slice [l_ptr, r_ptr + BLOCK) is returned.
BlockLoopTest ==
    /\ pc = "blk_loop"
    /\ IF BlockLoopCond
       THEN /\ pc' = "blk_left"
            /\ iters' = iters + 1
            /\ UNCHANGED <<s_base, s_len, entry_v>>
       ELSE /\ s_base' = l_ptr
            /\ s_len' = (r_ptr + BLOCK) - l_ptr
            /\ entry_v' = arr
            /\ pc' = "small_entry"
            /\ UNCHANGED iters
    /\ UNCHANGED <<inputVars, arr, blockVars, scanVars, swap_count, cycVars,
                   intVars, si, moveVars, ret, result, calls, moves,
                   small_calls>>

\* if l_offset_start_ptr == l_offset_end_ptr { fill_offset_block_up(..) }
BlockLeftCheck ==
    /\ pc = "blk_left"
    /\ IF l_start = l_end
       THEN /\ up_ptr' = BLOCK \div 2
            /\ down_ptr' = (BLOCK \div 2) - 1
            /\ fj' = 0
            /\ pc' = "fill_up"
       ELSE /\ pc' = "blk_right"
            /\ UNCHANGED scanVars
    /\ UNCHANGED <<inputVars, arr, blockVars, swap_count, cycVars, s_base,
                   s_len, entry_v, intVars, si, moveVars, ret, result, calls,
                   moves, iters, small_calls>>

\* if r_offset_start_ptr == r_offset_end_ptr { fill_offset_block_down(..) }
BlockRightCheck ==
    /\ pc = "blk_right"
    /\ IF r_start = r_end
       THEN /\ up_ptr' = BLOCK \div 2
            /\ down_ptr' = (BLOCK \div 2) - 1
            /\ fj' = 0
            /\ pc' = "fill_down"
       ELSE /\ pc' = "blk_swap"
            /\ UNCHANGED scanVars
    /\ UNCHANGED <<inputVars, arr, blockVars, swap_count, cycVars, s_base,
                   s_len, entry_v, intVars, si, moveVars, ret, result, calls,
                   moves, iters, small_calls>>

\* A bug: down_i computed without the - 1, so offset BLOCK / 2 is scanned
\* twice and offset 0 never.
UpScanIndex_OffByOne(j) ==
    LET i == j \div 2
    IN  IF j % 2 = 0 THEN i + (BLOCK \div 2) ELSE (BLOCK \div 2) - i

\* fill_offset_block_up: the j-th is_swap_elem call of a scan (two calls per
\* iteration i of the loop) looks at this offset of the window: up_i on the
\* first call of an iteration, down_i on the second.
UpScanIndex(j) ==
    LET i == j \div 2
    IN  IF j % 2 = 0 THEN i + (BLOCK \div 2) ELSE ((BLOCK \div 2) - 1) - i

\* fill_offset_block_down: the same for the nested s_i / i loops.
DownScanIndex(j) ==
    LET t == j \div 2
        s_i == ((BLOCK \div SUB_BLOCK) - 1) - (t \div (SUB_BLOCK \div 2))
        i == t % (SUB_BLOCK \div 2)
        sub_block_offset == s_i * SUB_BLOCK
    IN  IF j % 2 = 0
        THEN sub_block_offset + (((SUB_BLOCK \div 2) - 1) - i)
        ELSE sub_block_offset + (i + (SUB_BLOCK \div 2))

\* The closure of the left scan: |elem| !is_less(elem, pivot)
IsSwapLeft(ans) == ~ans

\* A bug: the right scan given the closure of the left one.
IsSwapRight_Negated(ans) == ~ans

\* The closure of the right scan: |elem| is_less(elem, pivot)
IsSwapRight(ans) == ans

\* One is_swap_elem call of fill_offset_block_up on the low window.
FillUpStep ==
    /\ pc = "fill_up"
    /\ fj < BLOCK
    /\ LET off == UpScanIndex(fj)
       IN  \E ans \in Answers(At(arr, l_ptr + off)) :
              LET is_se == BoolToInt(IsSwapLeft(ans))
              IN  IF fj % 2 = 0
                  THEN /\ l_off' = [l_off EXCEPT ![up_ptr] = AsU8(off)]
                       /\ up_ptr' = up_ptr + is_se
                       /\ UNCHANGED down_ptr
                  ELSE /\ l_off' = [l_off EXCEPT ![down_ptr] = AsU8(off)]
                       /\ down_ptr' = down_ptr - is_se
                       /\ UNCHANGED up_ptr
    /\ fj' = fj + 1
    /\ calls' = calls + 1
    /\ UNCHANGED <<inputVars, arr, pc, l_ptr, r_ptr, l_start, l_end, r_off,
                   r_start, r_end, swap_count, cycVars, s_base, s_len,
                   entry_v, intVars, si, moveVars, ret, result, moves, iters,
                   small_calls>>

\* fill_offset_block_up returns (down_ptr.add(1), up_ptr).
FillUpReturn ==
    /\ pc = "fill_up"
    /\ fj = BLOCK
    /\ l_start' = down_ptr + 1
    /\ l_end' = up_ptr
    /\ fj' = 0 /\ up_ptr' = 0 /\ down_ptr' = 0
    /\ pc' = "blk_right"
    /\ UNCHANGED <<inputVars, arr, l_ptr, r_ptr, l_off, r_off, r_start,
                   r_end, swap_count, cycVars, s_base, s_len, entry_v,
                   intVars, si, moveVars, ret, result, calls, moves, iters,
                   small_calls>>

\* One is_swap_elem call of fill_offset_block_down on the high window.
FillDownStep ==
    /\ pc = "fill_down"
    /\ fj < BLOCK
    /\ LET off == DownScanIndex(fj)
       IN  \E ans \in Answers(At(arr, r_ptr + off)) :
              LET is_se == BoolToInt(IsSwapRight(ans))
              IN  IF fj % 2 = 0
                  THEN /\ r_off' = [r_off EXCEPT ![up_ptr] = AsU8(off)]
                       /\ up_ptr' = up_ptr + is_se
                       /\ UNCHANGED down_ptr
                  ELSE /\ r_off' = [r_off EXCEPT ![down_ptr] = AsU8(off)]
                       /\ down_ptr' = down_ptr - is_se
                       /\ UNCHANGED up_ptr
    /\ fj' = fj + 1
    /\ calls' = calls + 1
    /\ UNCHANGED <<inputVars, arr, pc, l_ptr, r_ptr, l_off, l_start, l_end,
                   r_start, r_end, swap_count, cycVars, s_base, s_len,
                   entry_v, intVars, si, moveVars, ret, result, moves, iters,
                   small_calls>>

\* fill_offset_block_down returns (down_ptr.add(1), up_ptr).
FillDownReturn ==
    /\ pc = "fill_down"
    /\ fj = BLOCK
    /\ r_start' = down_ptr + 1
    /\ r_end' = up_ptr
    /\ fj' = 0 /\ up_ptr' = 0 /\ down_ptr' = 0
    /\ pc' = "blk_swap"
    /\ UNCHANGED <<inputVars, arr, l_ptr, r_ptr, l_off, l_start, l_end,
                   r_off, swap_count, cycVars, s_base, s_len, entry_v,
                   intVars, si, moveVars, ret, result, calls, moves, iters,
                   small_calls>>

\* A bug: one pair is exchanged per iteration, however many are pending.
SwapCount_OnePair == Min(1, Min(l_end - l_start, r_end - r_start))

\* let swap_count = cmp::min(l_end - l_start, r_end - r_start)
SwapCount == Min(l_end - l_start, r_end - r_start)

\* swap_count is computed and the loop variable of the macro is set up.
BlockSwapCount ==
    /\ pc = "blk_swap"
    /\ swap_count' = SwapCount
    /\ ci' = USIZE_MAX
    /\ cyc_v' = arr /\ lefts' = <<>> /\ rights' = <<>> /\ aliased' = FALSE
    /\ cyc_moves' = 0
    /\ pc' = "blk_cyc_if"
    /\ UNCHANGED <<inputVars, arr, blockVars, scanVars, left_ptr, right_ptr,
                   tmp, s_base, s_len, entry_v, intVars, si, moveVars, ret,
                   result, calls, moves, iters, small_calls>>

-----------------------------------------------------------------------------
(* cyclic_permutation_swap_loop!                                           *)
(* A copy_nonoverlapping whose source and destination are the same element *)
(* leaves the element as it is.                                            *)

\* A bug: the first copy goes from left_ptr to right_ptr.
CycFirstArr_Reversed(a, left, right) == Put(a, right, At(a, left))

\* let tmp = ptr::read(left_ptr); copy_nonoverlapping(right_ptr, left_ptr, 1)
CycFirstArr(a, left, right) == Put(a, left, At(a, right))

\* A bug: the second copy of the loop body left out.
CycIterArr_OneCopy(a, left, right, new_right) == Put(a, right, At(a, left))

\* copy_nonoverlapping(left_ptr, right_ptr, 1); right_ptr = $next_right;
\* copy_nonoverlapping(right_ptr, left_ptr, 1)
CycIterArr(a, left, right, new_right) ==
    LET a1 == Put(a, right, At(a, left))
    IN  Put(a1, left, At(a1, new_right))

\* A bug: the held element is not written back.
CycLastArr_Dropped(a, right, held) == a

\* copy_nonoverlapping(&tmp, right_ptr, 1); mem::forget(tmp)
CycLastArr(a, right, held) == Put(a, right, held)

\* The record of the positions the two expressions of an invocation gave.
\* The macro's SAFETY contract: the produced pointers MUST NOT alias.
Fresh(left, right) ==
    /\ left # right
    /\ left \notin Range(lefts) \cup Range(rights)
    /\ right \notin Range(lefts) \cup Range(rights)

NextAliased(left, right) == aliased \/ ~Fresh(left, right)

NextLefts(left, right) ==
    IF NextAliased(left, right) THEN lefts ELSE Append(lefts, left)

NextRights(left, right) ==
    IF NextAliased(left, right) THEN rights ELSE Append(rights, right)

\* block_partition's expressions for the macro
BlockContinueCheck(i) == i < swap_count
BlockNextLeft(i) == l_ptr + l_off[l_start + i]
BlockNextRight(i) == r_ptr + r_off[r_start + i]

\* if $continue_check { first exchange } at block_partition's call site
BlockCycIf ==
    /\ pc = "blk_cyc_if"
    /\ LET i == WrappingAdd1(ci)
       IN  /\ ci' = i
           /\ IF BlockContinueCheck(i)
              THEN LET left == BlockNextLeft(i)
                       right == BlockNextRight(i)
                   IN  /\ left_ptr' = left
                       /\ right_ptr' = right
                       /\ tmp' = At(arr, left)
                       /\ arr' = CycFirstArr(arr, left, right)
                       /\ moves' = moves + 2
                       /\ lefts' = NextLefts(left, right)
                       /\ rights' = NextRights(left, right)
                       /\ aliased' = NextAliased(left, right)
                       /\ cyc_moves' = 2
                       /\ pc' = "blk_cyc_while"
              ELSE /\ pc' = "blk_advance"
                   /\ UNCHANGED <<left_ptr, right_ptr, tmp, arr, moves,
                                  lefts, rights, aliased, cyc_moves>>
    /\ UNCHANGED cyc_v
    /\ UNCHANGED <<inputVars, blockVars, scanVars, swap_count, s_base, s_len,
                   entry_v, intVars, si, moveVars, ret, result, calls, iters,
                   small_calls>>

\* while $continue_check { .. } and the write of tmp after the loop
BlockCycWhile ==
    /\ pc = "blk_cyc_while"
    /\ LET i == WrappingAdd1(ci)
       IN  /\ ci' = i
           /\ IF BlockContinueCheck(i)
              THEN LET left == BlockNextLeft(i)
                       new_right == BlockNextRight(i)
                   IN  /\ left_ptr' = left
                       /\ right_ptr' = new_right
                       /\ arr' = CycIterArr(arr, left, right_ptr, new_right)
                       /\ moves' = moves + 2
                       /\ lefts' = NextLefts(left, new_right)
                       /\ rights' = NextRights(left, new_right)
                       /\ aliased' = NextAliased(left, new_right)
                       /\ cyc_moves' = cyc_moves + 2
                       /\ UNCHANGED <<tmp, pc>>
              ELSE /\ arr' = CycLastArr(arr, right_ptr, tmp)
                   /\ tmp' = NoElem
                   /\ moves' = moves + 1
                   /\ cyc_moves' = cyc_moves + 1
                   /\ left_ptr' = 0 /\ right_ptr' = 0
                   /\ pc' = "blk_advance"
                   /\ UNCHANGED <<lefts, rights, aliased>>
    /\ UNCHANGED cyc_v
    /\ UNCHANGED <<inputVars, blockVars, scanVars, swap_count, s_base, s_len,
                   entry_v, intVars, si, moveVars, ret, result, calls, iters,
                   small_calls>>

\* The read positions move on by swap_count; a cursor whose buffer is now
\* consumed moves by BLOCK.
BlockAdvance ==
    /\ pc = "blk_advance"
    /\ l_start' = l_start + swap_count
    /\ r_start' = r_start + swap_count
    /\ l_ptr' = l_ptr + BoolToInt(l_start' = l_end) * BLOCK
    /\ r_ptr' = r_ptr - BoolToInt(r_start' = r_end) * BLOCK
    /\ pc' = "blk_loop"
    /\ UNCHANGED <<inputVars, arr, l_off, l_end, r_off, r_end, scanVars,
                   swap_count, cycVars, s_base, s_len, entry_v, intVars, si,
                   moveVars, ret, result, calls, moves, iters, small_calls>>

-----------------------------------------------------------------------------
(* Partition::small_partition and its two strategies *)

\* The impls of Partition: Freeze + Copy types of at most two usize go to
\* small_partition_int_opt, every other type to small_partition_move_opt.
UsesIntOpt == tclass \in {"word", "pair"}

\* if len >= MAX_SMALL_PARTITION_LEN (the first test of both strategies)
SmallTooLong == s_len >= MAX_SMALL_PARTITION_LEN

\* len.saturating_sub(1)
SaturatingSub1(n) == IF n = 0 THEN 0 ELSE n - 1

\* small_partition_int_opt: where the unrolled loop stands when its loop
\* variable is i: in the loop, at the single trailing body, or past both.
IntOptPc(i) ==
    IF i < SaturatingSub1(s_len) THEN "int_a"
    ELSE IF i # s_len THEN "int_tail"
    ELSE "int_copy"

\* debug_assert!(false) of a build with debug assertions: the call panics.
SmallTooLongDebug ==
    /\ pc = "small_entry"
    /\ SmallTooLong
    /\ small_calls' = small_calls + 1
    /\ pc' = "panicked"
    /\ UNCHANGED <<inputVars, arr, blockVars, scanVars, swap_count, cycVars,
                   s_base, s_len, entry_v, intVars, si, moveVars, ret,
                   result, calls, moves, iters>>

\* Without debug assertions debug_assert! is empty: return 0.
SmallTooLongRelease ==
    /\ pc = "small_entry"
    /\ SmallTooLong
    /\ small_calls' = small_calls + 1
    /\ ret' = 0
    /\ pc' = "small_ret"
    /\ UNCHANGED <<inputVars, arr, blockVars, scanVars, swap_count, cycVars,
                   s_base, s_len, entry_v, intVars, si, moveVars, result,
                   calls, moves, iters>>

\* small_partition_int_opt up to its loop.
IntOptEnter ==
    /\ pc = "small_entry"
    /\ UsesIntOpt
    /\ ~SmallTooLong
    /\ small_calls' = small_calls + 1
    /\ scratch' = UninitBuffer(MAX_SMALL_PARTITION_LEN)
    /\ lt_count' = 0
    /\ ge_out' = s_len
    /\ si' = 0
    /\ pc' = IntOptPc(0)
    /\ UNCHANGED <<inputVars, arr, blockVars, scanVars, swap_count, cycVars,
                   s_base, s_len, entry_v, moveVars, ret, result, calls,
                   moves, iters>>

\* loop_body!: where the element goes in scratch.  A type of at most one
\* usize is stored twice, at scratch[lt_count] and at ge_out_ptr[lt_count];
\* a larger one once, at the place its comparison chose.
LoopBodyScratch(buf, e, is_less_than_pivot, lt, ge) ==
    IF tclass = "word"
    THEN [[buf EXCEPT ![lt] = e] EXCEPT ![ge + lt] = e]
    ELSE [buf EXCEPT ![IF is_less_than_pivot THEN lt ELSE ge + lt] = e]

\* A bug: the store of a less element goes through arr_ptr, not scratch_ptr.
LoopBodySlice_InPlace(a, k, is_less_than_pivot, lt) ==
    IF is_less_than_pivot THEN Put(a, s_base + lt, At(a, s_base + k)) ELSE a

\* loop_body!: what it does to v.  *elem_ptr is read (by is_less and as the
\* source of the copies); the copies write through scratch_ptr and
\* ge_out_ptr only, so v is as it was.
LoopBodySlice(a, k, is_less_than_pivot, lt) == a

\* The element copies one loop_body! makes.
LoopBodyMoves == IF tclass = "word" THEN 2 ELSE 1

\* One loop_body!: the two bodies of an iteration of the unrolled loop, or
\* the trailing one.
IntOptBody ==
    /\ pc \in {"int_a", "int_b", "int_tail"}
    /\ LET k == IF pc = "int_b" THEN si + 1 ELSE si
           e == At(arr, s_base + k)
           ge == ge_out - 1
       IN  /\ ge_out' = ge
           /\ \E ans \in Answers(e) :
                 /\ scratch' = LoopBodyScratch(scratch, e, ans, lt_count, ge)
                 /\ arr' = LoopBodySlice(arr, k, ans, lt_count)
                 /\ lt_count' = lt_count + BoolToInt(ans)
    /\ moves' = moves + LoopBodyMoves
    /\ calls' = calls + 1
    /\ IF pc = "int_a" THEN /\ pc' = "int_b"
                            /\ UNCHANGED si
       ELSE IF pc = "int_b" THEN /\ si' = si + 2
                                 /\ pc' = IntOptPc(si + 2)
       ELSE /\ pc' = "int_copy"
            /\ UNCHANGED si
    /\ UNCHANGED <<inputVars, blockVars, scanVars, swap_count, cycVars,
                   s_base, s_len, entry_v, moveVars, ret, result, iters,
                   small_calls>>

\* ptr::copy_nonoverlapping(scratch_ptr, arr_ptr, len)
CopyBack(a, buf, base, len) ==
    [p \in 1 .. Len(a) |->
        IF base < p /\ p <= base + len THEN buf[(p - 1) - base] ELSE a[p]]

\* The copy of scratch over the slice, and the return of lt_count.
IntOptCopyBack ==
    /\ pc = "int_copy"
    /\ arr' = CopyBack(arr, scratch, s_base, s_len)
    /\ moves' = moves + s_len
    /\ ret' = lt_count
    /\ pc' = "small_ret"
    /\ UNCHANGED <<inputVars, blockVars, scanVars, swap_count, cycVars,
                   s_base, s_len, entry_v, intVars, si, moveVars, result,
                   calls, iters, small_calls>>

\* small_partition_move_opt up to its scan.
MoveOptEnter ==
    /\ pc = "small_entry"
    /\ ~UsesIntOpt
    /\ ~SmallTooLong
    /\ small_calls' = small_calls + 1
    /\ ge_idx' = UninitBuffer(MAX_SMALL_PARTITION_LEN)
    /\ lt_idx' = UninitBuffer(MAX_SMALL_PARTITION_LEN)
    /\ lt_idx_ptr' = s_len
    /\ ge_count' = 0
    /\ si' = 0
    /\ pc' = "move_scan"
    /\ UNCHANGED <<inputVars, arr, blockVars, scanVars, swap_count, cycVars,
                   s_base, s_len, entry_v, intVars, ret, result, calls,
                   moves, iters>>

\* A bug: a not-less element is exchanged with the last element as soon as
\* it is found.
MoveScanSlice_Eager(a, k, is_ge) ==
    IF is_ge
    THEN Put(Put(a, s_base + k, At(a, (s_base + s_len) - 1)),
             (s_base + s_len) - 1, At(a, s_base + k))
    ELSE a

\* The scan loop: what it does to v.  It writes through ge_idx_ptr and
\* lt_idx_ptr only and reads *arr_ptr.add(i) for is_less, so v is as it was.
MoveScanSlice(a, k, is_ge) == a

\* One iteration of `for i in 0..len`.
MoveOptScan ==
    /\ pc = "move_scan"
    /\ si < s_len
    /\ lt_idx_ptr' = lt_idx_ptr - 1
    /\ ge_idx' = [ge_idx EXCEPT ![ge_count] = AsU8(si)]
    /\ lt_idx' = [lt_idx EXCEPT ![(lt_idx_ptr - 1) + ge_count] = AsU8(si)]
    /\ \E ans \in Answers(At(arr, s_base + si)) :
          /\ ge_count' = ge_count + BoolToInt(~ans)
          /\ arr' = MoveScanSlice(arr, si, ~ans)
    /\ si' = si + 1
    /\ calls' = calls + 1
    /\ UNCHANGED <<inputVars, pc, blockVars, scanVars, swap_count,
                   cycVars, s_base, s_len, entry_v, intVars, ret, result,
                   moves, iters, small_calls>>

\* let lt_count = len - ge_count; lt_idx_ptr = lt_idx_ptr.add(ge_count)
MoveOptScanDone ==
    /\ pc = "move_scan"
    /\ si = s_len
    /\ lt_count' = s_len - ge_count
    /\ lt_idx_ptr' = lt_idx_ptr + ge_count
    /\ ci' = USIZE_MAX
    /\ cyc_v' = arr /\ lefts' = <<>> /\ rights' = <<>> /\ aliased' = FALSE
    /\ cyc_moves' = 0
    /\ pc' = "mov_cyc_if"
    /\ UNCHANGED <<inputVars, arr, blockVars, scanVars, swap_count, left_ptr,
                   right_ptr, tmp, s_base, s_len, entry_v, scratch, ge_out,
                   si, ge_idx, lt_idx, ge_count, ret, result, calls, moves,
                   iters, small_calls>>

\* small_partition_move_opt's continue_check, given what *ge_idx_ptr.add(i)
\* reads as: i < lt_count && (*ge_idx_ptr.add(i) as usize) < lt_count
MoveContinueCheck(i, g) == i < lt_count /\ g < lt_count

\* What the reads of ge_idx[i] by continue_check and next_left can give;
\* continue_check does not read when i < lt_count is false.  An entry never
\* written reads as any u8: every value that is not below lt_count fails the
\* check in the same way, so the smallest of them stands for them all.
MoveGeReads(i) ==
    IF i >= lt_count THEN {0}
    ELSE IF ge_idx[i] = UNINIT THEN 0 .. Min(lt_count, U8_MAX)
    ELSE {ge_idx[i]}

\* next_left and next_right of small_partition_move_opt
MoveNextLeft(g) == s_base + g
MoveNextRights(i) == {s_base + r : r \in ReadU8(lt_idx, lt_idx_ptr + i)}

\* if $continue_check { first exchange } at small_partition_move_opt's call
\* site; when the check fails the function returns lt_count.
MoveCycIf ==
    /\ pc = "mov_cyc_if"
    /\ LET i == WrappingAdd1(ci)
       IN  /\ ci' = i
           /\ \E g \in MoveGeReads(i) :
                 IF MoveContinueCheck(i, g)
                 THEN \E right \in MoveNextRights(i) :
                         LET left == MoveNextLeft(g)
                         IN  /\ left_ptr' = left
                             /\ right_ptr' = right
                             /\ tmp' = At(arr, left)
                             /\ arr' = CycFirstArr(arr, left, right)
                             /\ moves' = moves + 2
                             /\ lefts' = NextLefts(left, right)
                             /\ rights' = NextRights(left, right)
                             /\ aliased' = NextAliased(left, right)
                             /\ cyc_moves' = 2
                             /\ pc' = "mov_cyc_while"
                             /\ UNCHANGED ret
                 ELSE /\ ret' = lt_count
                      /\ pc' = "small_ret"
                      /\ UNCHANGED <<left_ptr, right_ptr, tmp, arr, moves,
                                     lefts, rights, aliased, cyc_moves>>
    /\ UNCHANGED cyc_v
    /\ UNCHANGED <<inputVars, blockVars, scanVars, swap_count, s_base, s_len,
                   entry_v, intVars, si, moveVars, result, calls, iters,
                   small_calls>>

\* while $continue_check { .. }, the write of tmp after the loop, and the
\* return of lt_count.
MoveCycWhile ==
    /\ pc = "mov_cyc_while"
    /\ LET i == WrappingAdd1(ci)
       IN  /\ ci' = i
           /\ \E g \in MoveGeReads(i) :
                 IF MoveContinueCheck(i, g)
                 THEN \E new_right \in MoveNextRights(i) :
                         LET left == MoveNextLeft(g)
                         IN  /\ left_ptr' = left
                             /\ right_ptr' = new_right
                             /\ arr' = CycIterArr(arr, left, right_ptr,
                                                  new_right)
                             /\ moves' = moves + 2
                             /\ lefts' = NextLefts(left, new_right)
                             /\ rights' = NextRights(left, new_right)
                             /\ aliased' = NextAliased(left, new_right)
                             /\ cyc_moves' = cyc_moves + 2
                             /\ UNCHANGED <<tmp, pc, ret>>
                 ELSE /\ arr' = CycLastArr(arr, right_ptr, tmp)
                      /\ tmp' = NoElem
                      /\ moves' = moves + 1
                      /\ cyc_moves' = cyc_moves + 1
                      /\ UNCHANGED <<lefts, rights, aliased>>
                      /\ left_ptr' = 0 /\ right_ptr' = 0
                      /\ ret' = lt_count
                      /\ pc' = "small_ret"
    /\ UNCHANGED cyc_v
    /\ UNCHANGED <<inputVars, blockVars, scanVars, swap_count, s_base, s_len,
                   entry_v, intVars, si, moveVars, result, calls, iters,
                   small_calls>>

\* partition returns lt_block_count + small_partition(..), lt_block_count
\* being the offset of the remaining slice in v; a direct call of
\* small_partition returns what the strategy returned.
PartitionReturn ==
    /\ pc = "small_ret"
    /\ result' = IF entry = "partition" THEN s_base + ret ELSE ret
    /\ pc' = "done"
    /\ UNCHANGED <<inputVars, arr, blockVars, scanVars, swap_count, cycVars,
                   s_base, s_len, entry_v, intVars, si, moveVars, ret, calls,
                   moves, iters, small_calls>>

\* The program is about to call is_less.
AtPredicateCall ==
    \/ pc \in {"fill_up", "fill_down"} /\ fj < BLOCK
    \/ pc \in {"int_a", "int_b", "int_tail"}
    \/ pc = "move_scan" /\ si < s_len

\* is_less panics: the call unwinds, the slice stays as it is at that moment.
PredicatePanics ==
    /\ AtPredicateCall
    /\ calls' = calls + 1
    /\ pc' = "aborted"
    /\ UNCHANGED <<inputVars, arr, blockVars, scanVars, swap_count, cycVars,
                   s_base, s_len, entry_v, intVars, si, moveVars, ret,
                   result, moves, iters, small_calls>>

Next ==
    \/ CallPartition
    \/ CallSmallPartition
    \/ BlockLoopTest
    \/ BlockLeftCheck
    \/ FillUpStep
    \/ FillUpReturn
    \/ BlockRightCheck
    \/ FillDownStep
    \/ FillDownReturn
    \/ BlockSwapCount
    \/ BlockCycIf
    \/ BlockCycWhile
    \/ BlockAdvance
    \/ SmallTooLongDebug
    \/ SmallTooLongRelease
    \/ IntOptEnter
    \/ IntOptBody
    \/ IntOptCopyBack
    \/ MoveOptEnter
    \/ MoveOptScan
    \/ MoveOptScanDone
    \/ MoveCycIf
    \/ MoveCycWhile
    \/ PartitionReturn
    \/ PredicatePanics

\* is_less is a deterministic total order: it answers by the set less.
Spec == Init /\ [][Next]_vars

\* is_less answers every call arbitrarily.
SpecAny == InitAny /\ [][Next]_vars

\* The program is sequential and nothing else runs: as long as it has a next
\* step (it has not returned, and is_less has not panicked) it takes one.
\* The predicate is the deterministic one of Spec.
SpecLive == Init /\ [][Next]_vars /\ WF_vars(Next)

-----------------------------------------------------------------------------
(* Properties *)

\* The slice holds every element of the caller's slice exactly once.
IsPermutation(a) == Range(a) = 1 .. Len(a)

\* Every index below k holds a less element, every other index a not-less one.
PartitionedAt(a, k) ==
    \A p \in 1 .. Len(a) : (p <= k) <=> (a[p] \in less)

\* The caller's slice is already partitioned: the less elements come first.
AlreadyPartitioned == \E k \in 0 .. Len(arr) : less = 1 .. k

\* Its elements alternate above / below the pivot, starting with either.
Alternating ==
    \/ less = {e \in 1 .. Len(arr) : e % 2 = 0}
    \/ less = {e \in 1 .. Len(arr) : e % 2 = 1}

BlockPcs == {"blk_loop", "blk_left", "fill_up", "blk_right", "fill_down",
             "blk_swap", "blk_cyc_if", "blk_cyc_while", "blk_advance"}

IntOptPcs == {"int_a", "int_b", "int_tail", "int_copy"}

MoveOptPcs == {"move_scan", "mov_cyc_if", "mov_cyc_while"}

\* small_partition was called and the program is in it or past it.
InOrAfterSmall ==
    pc \in IntOptPcs \cup MoveOptPcs \cup {"small_ret", "done"}

\* C1: under a deterministic total-order predicate, partition returns the
\* number k of less elements, every index below k holds a less element and
\* every index from k on a not-less one, whatever the length and the
\* small-range strategy.
C1_PartitionCorrect ==
    (pc = "done" /\ entry = "partition")
        => (result = Cardinality(less) /\ PartitionedAt(arr, result))

C1_Witness ==
    /\ pc = "done" /\ entry = "partition"
    /\ Len(arr) >= MAX_SMALL_PARTITION_LEN
    /\ iters >= 2
    /\ arr # Identity(Len(arr))
    /\ 0 < result /\ result < Len(arr)
    /\ tclass = "general"

\* C2: whatever is_less answers, call by call, when partition returns the
\* slice holds exactly the elements it held before (its length is the same)
\* and the returned count lies in 0 .. len.
C2_PermutationAnyPredicate ==
    (pc = "done" /\ entry = "partition")
        => (IsPermutation(arr) /\ result \in 0 .. Len(arr))

\* A block exchange took place (some element of a high window was judged
\* less), yet the minimal-move strategy counted no less element: the answers
\* were not those of an order.
C2_Witness ==
    /\ pc = "done" /\ entry = "partition"
    /\ ~consistent
    /\ tclass = "general"
    /\ moves > 0
    /\ result = 0
    /\ arr # Identity(Len(arr))

\* C3: whenever is_less is about to run, and so whenever it panics, the slice
\* holds exactly the original elements and the temporary of the cyclic
\* permutation holds none.
C3_AbortKeepsElements ==
    (AtPredicateCall \/ pc = "aborted")
        => (IsPermutation(arr) /\ tmp = NoElem)

\* A panic in the block phase after exchanges have been made.
C3_Witness ==
    /\ pc = "aborted"
    /\ small_calls = 0
    /\ iters >= 2
    /\ moves > 0
    /\ arr # Identity(Len(arr))

\* C4: in small_partition_int_opt, while the scan runs and when is_less
\* panics in it, the slice is position by position what it was when the
\* strategy was called.
C4_IntOptRestores ==
    (UsesIntOpt /\ small_calls = 1
        /\ pc \in {"int_a", "int_b", "int_tail", "int_copy", "aborted"})
        => arr = entry_v

\* A panic in the scratch strategy after it stored elements of both kinds.
C4_Witness ==
    /\ pc = "aborted"
    /\ UsesIntOpt /\ small_calls = 1
    /\ lt_count > 0
    /\ calls > lt_count + 1
    /\ iters >= 1

\* C5 (as stated, for the minimal-move strategy): partition on an already
\* partitioned slice returns the number of less elements and moves nothing.
C5_NoMovesWhenPartitioned ==
    (pc = "done" /\ entry = "partition" /\ tclass = "general"
        /\ AlreadyPartitioned)
        => (result = Cardinality(less) /\ moves = 0
            /\ arr = Identity(Len(arr)))

\* C6 (as stated): a small-range strategy called with a slice of
\* MAX_SMALL_PARTITION_LEN elements or more never returns normally.
C6_TooLongNeverReturns ==
    (entry = "small_partition" /\ Len(arr) >= MAX_SMALL_PARTITION_LEN)
        => pc \notin {"small_ret", "done"}

\* C7: below the threshold partition runs no block scan and no block
\* exchange, the whole slice goes untouched to small_partition, which looks
\* at all of it (for the empty slice: no call of is_less, no move, result 0);
\* from the threshold on the block loop runs at least once and
\* small_partition is called exactly once, after the loop has exited, on the
\* slice between the cursors.
C7_Routing ==
    entry = "partition" =>
        /\ small_calls <= 1
        /\ (pc = "done" => small_calls = 1)
        /\ Len(arr) < MAX_SMALL_PARTITION_LEN =>
              /\ pc \notin BlockPcs
              /\ iters = 0
              /\ l_off = UninitBuffer(BLOCK) /\ r_off = UninitBuffer(BLOCK)
              /\ (pc = "small_entry" \/ InOrAfterSmall) =>
                    /\ s_base = 0 /\ s_len = Len(arr)
                    /\ entry_v = Identity(Len(arr))
              /\ pc = "small_entry" => (calls = 0 /\ moves = 0)
              /\ pc = "done" => calls = Len(arr)
              /\ (pc = "done" /\ Len(arr) = 0) => (moves = 0 /\ result = 0)
        /\ Len(arr) >= MAX_SMALL_PARTITION_LEN =>
              /\ pc \in BlockPcs => small_calls = 0
              /\ (pc = "small_entry" \/ InOrAfterSmall) =>
                    /\ iters >= 1
                    /\ ~BlockLoopCond
                    /\ s_base = l_ptr
                    /\ s_base + s_len = r_ptr + BLOCK

C7_Witness ==
    /\ pc = "done" /\ entry = "partition"
    /\ Len(arr) = MAX_SMALL_PARTITION_LEN
    /\ iters = 1
    /\ small_calls = 1
    /\ s_len > 0

\* C8 (as stated): for a slice of exactly 2 * BLOCK alternating elements
\* block_partition returns a slice of length 0.
C8_AlternatingResidualEmpty ==
    (entry = "partition" /\ Len(arr) = 2 * BLOCK /\ Alternating
        /\ pc = "small_entry")
        => s_len = 0

\* C8 (amended): 2 * BLOCK is below MAX_SMALL_PARTITION_LEN, so for a slice of
\* exactly 2 * BLOCK alternating elements block_partition scans nothing,
\* moves nothing and returns the whole slice, of length 2 * BLOCK.
C8_AlternatingHandedBackWhole ==
    (entry = "partition" /\ Len(arr) = 2 * BLOCK /\ Alternating
        /\ (pc = "small_entry" \/ InOrAfterSmall))
        => /\ s_base = 0
           /\ s_len = 2 * BLOCK
           /\ entry_v = Identity(2 * BLOCK)
           /\ iters = 0

C8_Witness ==
    /\ entry = "partition" /\ Len(arr) = 2 * BLOCK /\ Alternating
    /\ pc = "small_entry"
    /\ s_len = 2 * BLOCK

\* C9: whatever is_less answers, for a slice of MAX_SMALL_PARTITION_LEN
\* elements or more the cursors never leave v (the high cursor never drops
\* below index 0), and once the block loop has exited the slice between the
\* cursors lies in v and is shorter than 2 * BLOCK; so every slice partition
\* hands to small_partition is shorter than MAX_SMALL_PARTITION_LEN.
C9_ResidualBounded ==
    entry = "partition" =>
        /\ pc = "small_entry" => s_len < MAX_SMALL_PARTITION_LEN
        /\ pc # "panicked"
        /\ Len(arr) >= MAX_SMALL_PARTITION_LEN =>
              /\ 0 <= l_ptr
              /\ 0 <= r_ptr
              /\ (pc = "small_entry" \/ InOrAfterSmall) =>
                    /\ l_ptr <= r_ptr + BLOCK
                    /\ r_ptr + BLOCK <= Len(arr)
                    /\ s_base = l_ptr
                    /\ s_len = (r_ptr + BLOCK) - l_ptr
                    /\ s_len < 2 * BLOCK

\* The loop exits with the residual as long as it can be.
C9_Witness ==
    /\ entry = "partition" /\ ~consistent
    /\ pc = "small_entry"
    /\ iters >= 1
    /\ s_len = 2 * BLOCK - 1
    /\ s_base > 0

PendingLeft == {l_off[k] : k \in l_start .. l_end - 1}

PendingRight == {r_off[k] : k \in r_start .. r_end - 1}

\* C10: at the loop test of the block loop (the start and the end of every
\* iteration) every element below the low cursor is less, every element from
\* high cursor + BLOCK on is not, the pending low offsets name not-less
\* elements of the low window, the pending high offsets name less elements
\* of the high window, and in a window with pending offsets every other
\* position is on its correct side.
C10_BlockLoopInvariant ==
    pc = "blk_loop" =>
        /\ \A p \in 0 .. l_ptr - 1 : At(arr, p) \in less
        /\ \A p \in r_ptr + BLOCK .. Len(arr) - 1 : At(arr, p) \notin less
        /\ l_end - l_start = Cardinality(PendingLeft)
        /\ r_end - r_start = Cardinality(PendingRight)
        /\ \A o \in PendingLeft :
              o \in 0 .. BLOCK - 1 /\ At(arr, l_ptr + o) \notin less
        /\ \A o \in PendingRight :
              o \in 0 .. BLOCK - 1 /\ At(arr, r_ptr + o) \in less
        /\ l_start < l_end =>
              \A o \in (0 .. BLOCK - 1) \ PendingLeft :
                 At(arr, l_ptr + o) \in less
        /\ r_start < r_end =>
              \A o \in (0 .. BLOCK - 1) \ PendingRight :
                 At(arr, r_ptr + o) \notin less

\* Back at the loop test with low offsets pending, some of that window's
\* offsets consumed by an exchange, and the high cursor moved.
C10_Witness ==
    /\ pc = "blk_loop"
    /\ iters >= 1
    /\ l_start < l_end
    /\ moves > 0
    /\ r_ptr + BLOCK < Len(arr)
    /\ arr # Identity(Len(arr))

CycDone ==
    \/ pc = "blk_advance"
    \/ pc = "small_ret" /\ ~UsesIntOpt /\ ~SmallTooLong

\* C12: an invocation of the cyclic permutation that was given p pairs of
\* positions makes no move for p = 0 and exactly 2 * p + 1 single-element
\* moves for p >= 1, whoever calls it and whatever the positions are.  When
\* the positions are as its contract requires (no position is given twice),
\* then afterwards every left position holds what its right position held,
\* every right position holds what the next left position held, the last
\* right position holds what the first left position held, and every other
\* position of v is as it was.
C12_CyclicPermutation ==
    CycDone =>
        /\ cyc_moves = IF ci = 0 THEN 0 ELSE 2 * ci + 1
        /\ ci = 0 => arr = cyc_v
        /\ ~aliased =>
              /\ Len(lefts) = ci /\ Len(rights) = ci
              /\ \A k \in 1 .. ci :
                    /\ At(arr, lefts[k]) = At(cyc_v, rights[k])
                    /\ At(arr, rights[k]) =
                          At(cyc_v, lefts[IF k = ci THEN 1 ELSE k + 1])
              /\ \A q \in 0 .. Len(arr) - 1 :
                    q \notin Range(lefts) \cup Range(rights)
                        => At(arr, q) = At(cyc_v, q)

\* The minimal-move strategy has exchanged two pairs of a residual slice.
C12_Witness ==
    /\ pc = "small_ret" /\ ~UsesIntOpt
    /\ iters >= 1
    /\ ci >= 2
    /\ ~aliased
    /\ cyc_moves = 2 * ci + 1
    /\ arr # cyc_v

\* C13 (as stated): in every invocation of the cyclic permutation, from
\* block_partition and from small_partition_move_opt, the positions the two
\* expressions give are pairwise distinct: no left position is a right
\* position and no position is given twice, whatever the slice and the
\* classification of its elements.
C13_PositionsDistinct ==
    /\ ~aliased
    /\ pc \in {"blk_cyc_while", "mov_cyc_while"} =>
          /\ left_ptr # right_ptr
          /\ Cardinality(Range(lefts) \cup Range(rights)) = 2 * (ci + 1)

\* C13, what does hold: the invocations from block_partition are given
\* pairwise distinct positions, and so are those from
\* small_partition_move_opt on a slice with a not-less element.
C13_DistinctUnlessAllLess ==
    aliased => (pc \in MoveOptPcs \cup {"small_ret", "done"}
                /\ s_len > 0 /\ lt_count = s_len)

\* The positions of the slice small_partition_move_opt was given, relative to
\* its start, that held a not-less element when the scan looked at them, and
\* those that held a less one.
GePositions == {q \in 0 .. s_len - 1 : At(cyc_v, s_base + q) \notin less}

LtPositions == {q \in 0 .. s_len - 1 : At(cyc_v, s_base + q) \in less}

\* ge_idx[i] was written by the scan and is the i-th smallest not-less
\* position (i counts from 0).
GeEntryWritten(i) ==
    /\ i < ge_count
    /\ ge_idx[i] \in GePositions
    /\ Cardinality({q \in GePositions : q < ge_idx[i]}) = i

\* lt_idx_ptr[i] was written by the scan and is the i-th largest less
\* position.
LtEntryWritten(i) ==
    /\ lt_idx[lt_idx_ptr + i] \in LtPositions
    /\ Cardinality({q \in LtPositions : q > lt_idx[lt_idx_ptr + i]}) = i

\* The relocation phase is about to evaluate continue_check for the index
\* WrappingAdd1(ci): it reads ge_idx at that index when the index is below
\* lt_count, and lt_idx too when the check can then be true.
MoveReadsGe == pc \in {"mov_cyc_if", "mov_cyc_while"}
                 /\ WrappingAdd1(ci) < lt_count

MoveReadsLt ==
    /\ MoveReadsGe
    /\ \E g \in MoveGeReads(WrappingAdd1(ci)) :
          MoveContinueCheck(WrappingAdd1(ci), g)

\* C14 (as stated): every entry of ge_idx and of lt_idx that the relocation
\* phase of small_partition_move_opt reads was written by the scan of the
\* same call with the index it is meant to hold: ge_idx[i] is the i-th
\* smallest not-less position, lt_idx[i] the i-th largest less position.
C14_IndexReadsWritten ==
    /\ MoveReadsGe => GeEntryWritten(WrappingAdd1(ci))
    /\ MoveReadsLt => LtEntryWritten(WrappingAdd1(ci))

\* C14, what does hold: an entry of ge_idx below ge_count is the position it
\* is meant to hold; the entry at ge_count is read too, and it is the last
\* position the scan visited, left behind by a less element; an entry past
\* ge_count is read only on an all-less slice, and it was never written.
\* Every entry of lt_idx that is read is the position it is meant to hold.
C14_ReadsByCase ==
    LET i == WrappingAdd1(ci)
    IN  /\ (MoveReadsGe /\ i < ge_count) => GeEntryWritten(i)
        /\ (MoveReadsGe /\ i = ge_count) => ge_idx[i] = s_len - 1
        /\ (MoveReadsGe /\ i > ge_count) =>
               (ge_count = 0 /\ ge_idx[i] = UNINIT)
        /\ MoveReadsLt => LtEntryWritten(i)

\* C15: small_partition_move_opt calls is_less once per element, in the
\* order of the indices, and moves nothing before the last of these calls
\* has returned: while the scan runs, and when is_less panics in it, the
\* slice is position by position what it was when the strategy was called
\* and no element is held in a temporary; the k-th call looks at index k;
\* the relocation starts after exactly len calls.
C15_ScanBeforeMoves ==
    (~UsesIntOpt /\ small_calls = 1) =>
        /\ pc \in {"move_scan", "aborted"} =>
              /\ arr = entry_v
              /\ tmp = NoElem
              /\ si <= s_len
              /\ pc = "aborted" => si < s_len
              /\ iters = 0 =>
                    /\ moves = 0
                    /\ calls = si + BoolToInt(pc = "aborted")
        /\ pc \in {"mov_cyc_if", "mov_cyc_while"} =>
              /\ si = s_len
              /\ cyc_v = entry_v
              /\ iters = 0 => calls = s_len

\* is_less panics in the scan of a residual slice, after the block loop has
\* exchanged elements and the scan has seen elements of both kinds.
C15_Witness ==
    /\ pc = "aborted"
    /\ ~UsesIntOpt /\ small_calls = 1
    /\ iters >= 1
    /\ moves > 0
    /\ si >= 2
    /\ 0 < ge_count /\ ge_count < si
    /\ arr # Identity(Len(arr))

=============================================================================
